---- MODULE Spec2Model ----
(***************************************************************************)
(* The accounting state machine of the ink! contract LendingProtocol      *)
(* (src/lendingProtocol/lib.rs).  One action per #[ink(message)]; a step  *)
(* is one whole call, from its first check to its return.                 *)
(*                                                                         *)
(* Balance is an unsigned integer of Bits bits.  The contract uses the    *)
(* plain operators +, += , - and -= on it; the contract build (and the    *)
(* test build) compiles them with overflow checks, so an operation whose  *)
(* result does not fit panics.  A panic traps the call: the host reverts  *)
(* every storage write of the call, emits nothing and the caller gets no  *)
(* Result value.  The model records that outcome as the result "Trap".    *)
(***************************************************************************)
EXTENDS Integers, Sequences, FiniteSets, TLC

\* ---------------------------------------------------------------- bounds

\* Width of Balance in the model (u128 in the contract).
Bits == 8

\* Number of calls explored after construction.
MaxCalls == 4

\* Number of calls explored when only the borrowing messages are sent.
MaxBorrowingCalls == 7

\* Number of calls explored when the read-only messages are sent too.
MaxQueryCalls == 5

\* Number of calls explored when only the adding messages are sent.
MaxArithmeticCalls == 6

MaxBalance == (2 ^ Bits) - 1

\* AccountId values that call the contract and are named as borrowers.
Accounts == {"alice", "bob"}

\* The caller of the constructor.
Deployer == "alice"

\* AccountId values passed as interest rate model / underlying asset.
Models == {"irm1", "irm2"}

Assets == {"asset1", "asset2"}

\* Amount arguments tried: zero, the unit, the largest borrowable amount
\* (at least 100, so that interest on it is not zero) and the largest Balance.
Amounts == {0, 1, MaxBalance \div 2, MaxBalance}

\* ----------------------------------------------------------------- state

VARIABLES
    interest_rate_model,  \* lib.rs:31
    underlying_asset,     \* lib.rs:33
    total_supply,         \* lib.rs:35
    total_borrow,         \* lib.rs:37
    paused,               \* lib.rs:39
    balances,             \* lib.rs:41  Mapping<AccountId, Balance>
    debts,                \* lib.rs:43
    collaterals,          \* lib.rs:45
    admin,                \* lib.rs:47
    message,              \* the message of the last call
    result,               \* what the last call returned
    events,               \* the events the last call emitted
    returned,             \* the Balance the last call returned (0: none)
    net_deposited,        \* history: per account, deposited minus withdrawn
    calls_left            \* number of calls still to be made

ledger == <<interest_rate_model, underlying_asset, total_supply, total_borrow,
            paused, balances, debts, collaterals, admin>>

vars == <<interest_rate_model, underlying_asset, total_supply, total_borrow,
          paused, balances, debts, collaterals, admin,
          message, result, events, returned, net_deposited, calls_left>>

\* The Error enum (lib.rs:9-20).
ErrorKinds == {"NotAuthorized", "InsufficientBalance", "InsufficientLiquidity",
               "InsufficientCollateral", "ContractPaused"}

\* --------------------------------------------------------------- helpers

\* Mapping::get(&k).unwrap_or(0): an absent key reads as zero.
Get(m, k) == IF k \in DOMAIN m THEN m[k] ELSE 0

\* Mapping::insert(&k, &v).
Insert(m, k, v) == [x \in (DOMAIN m) \cup {k} |-> IF x = k THEN v ELSE m[x]]

\* Mapping::default(): no key present.
EmptyMapping == [x \in {} |-> 0]

\* An addition that never panics, whatever the sum.
AddPanics_Never(a, b) == FALSE

\* a + b on Balance panics exactly when the sum does not fit.
AddPanics(a, b) == a + b > MaxBalance

RECURSIVE SumOver(_, _)
SumOver(m, S) ==
    IF S = {} THEN 0
    ELSE LET k == CHOOSE x \in S : TRUE
         IN  m[k] + SumOver(m, S \ {k})

\* Sum of all values stored in a mapping.
SumOf(m) == SumOver(m, DOMAIN m)

\* only_admin with the comparison lost: every caller passes.
only_admin_Anyone(caller) == "Ok"

\* fn only_admin (lib.rs:426-431).
only_admin(caller) == IF caller # admin THEN "NotAuthorized" ELSE "Ok"

\* not_paused with the flag ignored: the gate is always open.
not_paused_NoGate == "Ok"

\* fn not_paused (lib.rs:434-439).
not_paused == IF paused THEN "ContractPaused" ELSE "Ok"

\* calculate_max_borrow without the halving: 100% loan to value.
calculate_max_borrow_Full(collateral) == collateral

\* fn calculate_max_borrow (lib.rs:442-445).
calculate_max_borrow(collateral) == collateral \div 2

\* calculate_interest at 10% instead of 1%.
calculate_interest_TenPercent == total_borrow \div 10

\* fn calculate_interest (lib.rs:448-451).
calculate_interest == total_borrow \div 100

\* A call that returns Err(kind), or traps: nothing is written, nothing is
\* emitted.
Reject(msg, kind) ==
    /\ message' = msg
    /\ result' = kind
    /\ events' = <<>>
    /\ returned' = 0
    /\ calls_left > 0
    /\ calls_left' = calls_left - 1
    /\ UNCHANGED <<ledger, net_deposited>>

\* The bookkeeping of a call that returns Ok(()).
Return(msg, emitted) ==
    /\ message' = msg
    /\ result' = "Ok"
    /\ events' = emitted
    /\ returned' = 0
    /\ calls_left > 0
    /\ calls_left' = calls_left - 1

\* ------------------------------------------------------------------ init

\* fn new (lib.rs:141-162): the state after construction by Deployer.
Constructed ==
    /\ admin = Deployer
    /\ interest_rate_model = "irm1"
    /\ underlying_asset = "asset1"
    /\ total_supply = 0
    /\ total_borrow = 0
    /\ paused = FALSE
    /\ balances = EmptyMapping
    /\ debts = EmptyMapping
    /\ collaterals = EmptyMapping
    /\ message = "new"
    /\ result = "Ok"
    /\ events = <<[name |-> "Initialized",
                   interest_rate_model |-> interest_rate_model,
                   underlying_asset |-> underlying_asset]>>
    /\ returned = 0
    /\ net_deposited = [a \in Accounts |-> 0]

Init == Constructed /\ calls_left = MaxCalls

InitBorrowing == Constructed /\ calls_left = MaxBorrowingCalls

InitQueries == Constructed /\ calls_left = MaxQueryCalls

InitArithmetic == Constructed /\ calls_left = MaxArithmeticCalls

\* --------------------------------------------------------------- actions

\* initialize open to every caller, who becomes the admin.
Initialize_TakesOver(caller, model, asset) ==
    LET msg == "initialize"
    IN  /\ interest_rate_model' = model
        /\ underlying_asset' = asset
        /\ admin' = caller
        /\ Return(msg, <<>>)
        /\ UNCHANGED <<total_supply, total_borrow, paused, balances,
                       debts, collaterals, net_deposited>>

\* fn initialize (lib.rs:166-175).
Initialize(caller, model, asset) ==
    LET msg == "initialize"
    IN  IF only_admin(caller) # "Ok" THEN Reject(msg, only_admin(caller))
        ELSE /\ interest_rate_model' = model
             /\ underlying_asset' = asset
             /\ Return(msg, <<>>)
             /\ UNCHANGED <<total_supply, total_borrow, paused, balances,
                            debts, collaterals, admin, net_deposited>>

\* deposit that forgets total_supply += amount.
Deposit_KeepTotal(caller, amount) ==
    LET msg == "deposit"
        balance == Get(balances, caller)
    IN  IF not_paused # "Ok" THEN Reject(msg, not_paused)
        ELSE IF AddPanics(balance, amount) THEN Reject(msg, "Trap")
        ELSE /\ balances' = Insert(balances, caller, balance + amount)
             /\ net_deposited' =
                    [net_deposited EXCEPT ![caller] = @ + amount]
             /\ Return(msg, <<[name |-> "Deposit", from |-> caller,
                             amount |-> amount]>>)
             /\ UNCHANGED <<interest_rate_model, underlying_asset,
                            total_supply, total_borrow, paused, debts,
                            collaterals, admin>>

\* fn deposit (lib.rs:179-194).
Deposit(caller, amount) ==
    LET msg == "deposit"
        balance == Get(balances, caller)
    IN  IF not_paused # "Ok" THEN Reject(msg, not_paused)
        ELSE IF AddPanics(balance, amount) THEN Reject(msg, "Trap")
        ELSE IF AddPanics(total_supply, amount) THEN Reject(msg, "Trap")
        ELSE /\ balances' = Insert(balances, caller, balance + amount)
             /\ total_supply' = total_supply + amount
             /\ net_deposited' =
                    [net_deposited EXCEPT ![caller] = @ + amount]
             /\ Return(msg, <<[name |-> "Deposit", from |-> caller,
                             amount |-> amount]>>)
             /\ UNCHANGED <<interest_rate_model, underlying_asset,
                            total_borrow, paused, debts, collaterals,
                            admin>>

\* withdraw with the balance check off by one (balance <= amount).
Withdraw_OffByOne(caller, amount) ==
    LET msg == "withdraw"
        balance == Get(balances, caller)
    IN  IF not_paused # "Ok" THEN Reject(msg, not_paused)
        ELSE IF balance <= amount THEN Reject(msg, "InsufficientBalance")
        ELSE IF total_supply < amount THEN Reject(msg, "Trap")
        ELSE /\ balances' = Insert(balances, caller, balance - amount)
             /\ total_supply' = total_supply - amount
             /\ net_deposited' =
                    [net_deposited EXCEPT ![caller] = @ - amount]
             /\ Return(msg, <<[name |-> "Withdraw", to |-> caller,
                             amount |-> amount]>>)
             /\ UNCHANGED <<interest_rate_model, underlying_asset,
                            total_borrow, paused, debts, collaterals,
                            admin>>

\* fn withdraw (lib.rs:198-218).
Withdraw(caller, amount) ==
    LET msg == "withdraw"
        balance == Get(balances, caller)
    IN  IF not_paused # "Ok" THEN Reject(msg, not_paused)
        ELSE IF balance < amount THEN Reject(msg, "InsufficientBalance")
        ELSE IF total_supply < amount THEN Reject(msg, "Trap")
        ELSE /\ balances' = Insert(balances, caller, balance - amount)
             /\ total_supply' = total_supply - amount
             /\ net_deposited' =
                    [net_deposited EXCEPT ![caller] = @ - amount]
             /\ Return(msg, <<[name |-> "Withdraw", to |-> caller,
                             amount |-> amount]>>)
             /\ UNCHANGED <<interest_rate_model, underlying_asset,
                            total_borrow, paused, debts, collaterals,
                            admin>>

\* borrow that compares the debt with the bound before it looks at the
\* pause switch.
Borrow_BoundFirst(caller, amount) ==
    LET msg == "borrow"
        collateral == Get(collaterals, caller)
        debt == Get(debts, caller)
        max_borrow == calculate_max_borrow(collateral)
    IN  IF AddPanics(debt, amount) THEN Reject(msg, "Trap")
        ELSE IF max_borrow < debt + amount
             THEN Reject(msg, "InsufficientCollateral")
        ELSE IF not_paused # "Ok" THEN Reject(msg, not_paused)
        ELSE IF AddPanics(total_borrow, amount) THEN Reject(msg, "Trap")
        ELSE /\ debts' = Insert(debts, caller, debt + amount)
             /\ total_borrow' = total_borrow + amount
             /\ Return(msg, <<[name |-> "Borrow", borrower |-> caller,
                             amount |-> amount]>>)
             /\ UNCHANGED <<interest_rate_model, underlying_asset,
                            total_supply, paused, balances, collaterals,
                            admin, net_deposited>>

\* fn borrow (lib.rs:222-246).
Borrow(caller, amount) ==
    LET msg == "borrow"
        collateral == Get(collaterals, caller)
        debt == Get(debts, caller)
        max_borrow == calculate_max_borrow(collateral)
    IN  IF not_paused # "Ok" THEN Reject(msg, not_paused)
        ELSE IF AddPanics(debt, amount) THEN Reject(msg, "Trap")
        ELSE IF max_borrow < debt + amount
             THEN Reject(msg, "InsufficientCollateral")
        ELSE IF AddPanics(total_borrow, amount) THEN Reject(msg, "Trap")
        ELSE /\ debts' = Insert(debts, caller, debt + amount)
             /\ total_borrow' = total_borrow + amount
             /\ Return(msg, <<[name |-> "Borrow", borrower |-> caller,
                             amount |-> amount]>>)
             /\ UNCHANGED <<interest_rate_model, underlying_asset,
                            total_supply, paused, balances, collaterals,
                            admin, net_deposited>>

\* repay that forgets total_borrow -= amount.
Repay_KeepTotal(caller, amount) ==
    LET msg == "repay"
        debt == Get(debts, caller)
    IN  IF not_paused # "Ok" THEN Reject(msg, not_paused)
        ELSE IF debt < amount THEN Reject(msg, "InsufficientBalance")
        ELSE /\ debts' = Insert(debts, caller, debt - amount)
             /\ Return(msg, <<[name |-> "Repay", borrower |-> caller,
                             amount |-> amount]>>)
             /\ UNCHANGED <<interest_rate_model, underlying_asset,
                            total_supply, total_borrow, paused, balances,
                            collaterals, admin, net_deposited>>

\* fn repay (lib.rs:250-270).
Repay(caller, amount) ==
    LET msg == "repay"
        debt == Get(debts, caller)
    IN  IF not_paused # "Ok" THEN Reject(msg, not_paused)
        ELSE IF debt < amount THEN Reject(msg, "InsufficientBalance")
        ELSE IF total_borrow < amount THEN Reject(msg, "Trap")
        ELSE /\ debts' = Insert(debts, caller, debt - amount)
             /\ total_borrow' = total_borrow - amount
             /\ Return(msg, <<[name |-> "Repay", borrower |-> caller,
                             amount |-> amount]>>)
             /\ UNCHANGED <<interest_rate_model, underlying_asset,
                            total_supply, paused, balances, collaterals,
                            admin, net_deposited>>

\* liquidate that writes the debt before it checks the collateral.
Liquidate_EarlyWrite(caller, borrower, amount) ==
    LET msg == "liquidate"
        debt == Get(debts, borrower)
        collateral == Get(collaterals, borrower)
    IN  IF not_paused # "Ok" THEN Reject(msg, not_paused)
        ELSE IF debt < amount THEN Reject(msg, "InsufficientBalance")
        ELSE IF collateral < amount
             THEN /\ debts' = Insert(debts, borrower, debt - amount)
                  /\ message' = msg
                  /\ result' = "InsufficientCollateral"
                  /\ events' = <<>>
                  /\ returned' = 0
                  /\ calls_left > 0
                  /\ calls_left' = calls_left - 1
                  /\ UNCHANGED <<interest_rate_model, underlying_asset,
                                 total_supply, total_borrow, paused,
                                 balances, collaterals, admin,
                                 net_deposited>>
        ELSE /\ debts' = Insert(debts, borrower, debt - amount)
             /\ collaterals' =
                    Insert(collaterals, borrower, collateral - amount)
             /\ Return(msg, <<[name |-> "Liquidate", liquidator |-> caller,
                             borrower |-> borrower, amount |-> amount]>>)
             /\ UNCHANGED <<interest_rate_model, underlying_asset,
                            total_supply, total_borrow, paused, balances,
                            admin, net_deposited>>

\* liquidate with the two checks in the other order.
Liquidate_CollateralFirst(caller, borrower, amount) ==
    LET msg == "liquidate"
        debt == Get(debts, borrower)
        collateral == Get(collaterals, borrower)
    IN  IF not_paused # "Ok" THEN Reject(msg, not_paused)
        ELSE IF collateral < amount
             THEN Reject(msg, "InsufficientCollateral")
        ELSE IF debt < amount THEN Reject(msg, "InsufficientBalance")
        ELSE /\ debts' = Insert(debts, borrower, debt - amount)
             /\ collaterals' =
                    Insert(collaterals, borrower, collateral - amount)
             /\ Return(msg, <<[name |-> "Liquidate", liquidator |-> caller,
                             borrower |-> borrower, amount |-> amount]>>)
             /\ UNCHANGED <<interest_rate_model, underlying_asset,
                            total_supply, total_borrow, paused, balances,
                            admin, net_deposited>>

\* liquidate that writes the reduced debt and collateral under the
\* caller's key instead of the borrower's.
Liquidate_FromCaller(caller, borrower, amount) ==
    LET msg == "liquidate"
        debt == Get(debts, borrower)
        collateral == Get(collaterals, borrower)
    IN  IF not_paused # "Ok" THEN Reject(msg, not_paused)
        ELSE IF debt < amount THEN Reject(msg, "InsufficientBalance")
        ELSE IF collateral < amount
             THEN Reject(msg, "InsufficientCollateral")
        ELSE /\ debts' = Insert(debts, caller, debt - amount)
             /\ collaterals' =
                    Insert(collaterals, caller, collateral - amount)
             /\ Return(msg, <<[name |-> "Liquidate", liquidator |-> caller,
                             borrower |-> borrower, amount |-> amount]>>)
             /\ UNCHANGED <<interest_rate_model, underlying_asset,
                            total_supply, total_borrow, paused, balances,
                            admin, net_deposited>>

\* fn liquidate (lib.rs:274-301).
Liquidate(caller, borrower, amount) ==
    LET msg == "liquidate"
        debt == Get(debts, borrower)
        collateral == Get(collaterals, borrower)
    IN  IF not_paused # "Ok" THEN Reject(msg, not_paused)
        ELSE IF debt < amount THEN Reject(msg, "InsufficientBalance")
        ELSE IF collateral < amount
             THEN Reject(msg, "InsufficientCollateral")
        ELSE /\ debts' = Insert(debts, borrower, debt - amount)
             /\ collaterals' =
                    Insert(collaterals, borrower, collateral - amount)
             /\ Return(msg, <<[name |-> "Liquidate", liquidator |-> caller,
                             borrower |-> borrower, amount |-> amount]>>)
             /\ UNCHANGED <<interest_rate_model, underlying_asset,
                            total_supply, total_borrow, paused, balances,
                            admin, net_deposited>>

\* accrue_interest that takes the interest off total_borrow.
AccrueInterest_Discount(caller) ==
    LET msg == "accrue_interest"
        interest == calculate_interest
    IN  IF not_paused # "Ok" THEN Reject(msg, not_paused)
        ELSE /\ total_borrow' = total_borrow - interest
             /\ Return(msg, <<[name |-> "InterestAccrued",
                             amount |-> interest]>>)
             /\ UNCHANGED <<interest_rate_model, underlying_asset,
                            total_supply, paused, balances, debts,
                            collaterals, admin, net_deposited>>

\* fn accrue_interest (lib.rs:305-317).
AccrueInterest(caller) ==
    LET msg == "accrue_interest"
        interest == calculate_interest
    IN  IF not_paused # "Ok" THEN Reject(msg, not_paused)
        ELSE IF AddPanics(total_borrow, interest) THEN Reject(msg, "Trap")
        ELSE /\ total_borrow' = total_borrow + interest
             /\ Return(msg, <<[name |-> "InterestAccrued",
                             amount |-> interest]>>)
             /\ UNCHANGED <<interest_rate_model, underlying_asset,
                            total_supply, paused, balances, debts,
                            collaterals, admin, net_deposited>>

\* fn set_interest_rate_model (lib.rs:321-332).
SetInterestRateModel(caller, new_model) ==
    LET msg == "set_interest_rate_model"
    IN  IF only_admin(caller) # "Ok" THEN Reject(msg, only_admin(caller))
        ELSE /\ interest_rate_model' = new_model
             /\ Return(msg, <<[name |-> "InterestRateModelUpdated",
                             new_model |-> new_model]>>)
             /\ UNCHANGED <<underlying_asset, total_supply, total_borrow,
                            paused, balances, debts, collaterals, admin,
                            net_deposited>>

\* fn add_collateral (lib.rs:336-350).
AddCollateral(caller, amount) ==
    LET msg == "add_collateral"
        collateral == Get(collaterals, caller)
    IN  IF not_paused # "Ok" THEN Reject(msg, not_paused)
        ELSE IF AddPanics(collateral, amount) THEN Reject(msg, "Trap")
        ELSE /\ collaterals' =
                    Insert(collaterals, caller, collateral + amount)
             /\ Return(msg, <<[name |-> "CollateralAdded", user |-> caller,
                             amount |-> amount]>>)
             /\ UNCHANGED <<interest_rate_model, underlying_asset,
                            total_supply, total_borrow, paused, balances,
                            debts, admin, net_deposited>>

\* remove_collateral that also refuses to leave the debt above the borrow
\* bound of what remains.
RemoveCollateral_CheckDebt(caller, amount) ==
    LET msg == "remove_collateral"
        collateral == Get(collaterals, caller)
        debt == Get(debts, caller)
    IN  IF not_paused # "Ok" THEN Reject(msg, not_paused)
        ELSE IF collateral < amount
             THEN Reject(msg, "InsufficientCollateral")
        ELSE IF calculate_max_borrow(collateral - amount) < debt
             THEN Reject(msg, "InsufficientCollateral")
        ELSE /\ collaterals' =
                    Insert(collaterals, caller, collateral - amount)
             /\ Return(msg, <<[name |-> "CollateralRemoved",
                             user |-> caller, amount |-> amount]>>)
             /\ UNCHANGED <<interest_rate_model, underlying_asset,
                            total_supply, total_borrow, paused, balances,
                            debts, admin, net_deposited>>

\* fn remove_collateral (lib.rs:354-373).
RemoveCollateral(caller, amount) ==
    LET msg == "remove_collateral"
        collateral == Get(collaterals, caller)
    IN  IF not_paused # "Ok" THEN Reject(msg, not_paused)
        ELSE IF collateral < amount
             THEN Reject(msg, "InsufficientCollateral")
        ELSE /\ collaterals' =
                    Insert(collaterals, caller, collateral - amount)
             /\ Return(msg, <<[name |-> "CollateralRemoved",
                             user |-> caller, amount |-> amount]>>)
             /\ UNCHANGED <<interest_rate_model, underlying_asset,
                            total_supply, total_borrow, paused, balances,
                            debts, admin, net_deposited>>

\* pause_contract that flips the switch instead of setting it.
PauseContract_Toggle(caller) ==
    LET msg == "pause_contract"
    IN  IF only_admin(caller) # "Ok" THEN Reject(msg, only_admin(caller))
        ELSE /\ paused' = ~paused
             /\ Return(msg, <<[name |-> "ContractPaused"]>>)
             /\ UNCHANGED <<interest_rate_model, underlying_asset,
                            total_supply, total_borrow, balances, debts,
                            collaterals, admin, net_deposited>>

\* fn pause_contract (lib.rs:399-409).
PauseContract(caller) ==
    LET msg == "pause_contract"
    IN  IF only_admin(caller) # "Ok" THEN Reject(msg, only_admin(caller))
        ELSE /\ paused' = TRUE
             /\ Return(msg, <<[name |-> "ContractPaused"]>>)
             /\ UNCHANGED <<interest_rate_model, underlying_asset,
                            total_supply, total_borrow, balances, debts,
                            collaterals, admin, net_deposited>>

\* fn unpause_contract (lib.rs:413-423).
UnpauseContract(caller) ==
    LET msg == "unpause_contract"
    IN  IF only_admin(caller) # "Ok" THEN Reject(msg, only_admin(caller))
        ELSE /\ paused' = FALSE
             /\ Return(msg, <<[name |-> "ContractUnpaused"]>>)
             /\ UNCHANGED <<interest_rate_model, underlying_asset,
                            total_supply, total_borrow, balances, debts,
                            collaterals, admin, net_deposited>>

\* Balance::saturating_sub: the difference, held at the lower bound 0 of
\* the type.
saturating_sub(a, b) == IF a - b < 0 THEN 0 ELSE a - b

\* get_account_liquidity with a wrapping subtraction in place of the
\* saturating one.
get_account_liquidity_Wrapping(user) ==
    (Get(collaterals, user) - Get(debts, user)) % (MaxBalance + 1)

\* The value of fn get_account_liquidity (lib.rs:377-383).
get_account_liquidity(user) ==
    LET collateral == Get(collaterals, user)
        debt == Get(debts, user)
    IN  saturating_sub(collateral, debt)

\* The value of fn get_total_supply (lib.rs:387-389).
get_total_supply == total_supply

\* The value of fn get_total_borrow (lib.rs:393-395).
get_total_borrow == total_borrow

\* A call of a read-only message (&self): it returns a Balance, writes
\* nothing and emits nothing.
Answer(msg, value) ==
    /\ message' = msg
    /\ result' = "Ok"
    /\ events' = <<>>
    /\ returned' = value
    /\ calls_left > 0
    /\ calls_left' = calls_left - 1
    /\ UNCHANGED <<ledger, net_deposited>>

\* The message get_account_liquidity (lib.rs:376-383).
GetAccountLiquidity(caller, user) ==
    Answer("get_account_liquidity", get_account_liquidity(user))

\* The message get_total_supply (lib.rs:386-389).
GetTotalSupply(caller) == Answer("get_total_supply", get_total_supply)

\* The message get_total_borrow (lib.rs:392-395).
GetTotalBorrow(caller) == Answer("get_total_borrow", get_total_borrow)

\* ------------------------------------------------------------------ spec

\* Any caller sends any message with any arguments.
Next ==
    \E caller \in Accounts :
        \/ \E model \in Models, asset \in Assets :
               Initialize(caller, model, asset)
        \/ \E amount \in Amounts : Deposit(caller, amount)
        \/ \E amount \in Amounts : Withdraw(caller, amount)
        \/ \E amount \in Amounts : Borrow(caller, amount)
        \/ \E amount \in Amounts : Repay(caller, amount)
        \/ \E borrower \in Accounts, amount \in Amounts :
               Liquidate(caller, borrower, amount)
        \/ AccrueInterest(caller)
        \/ \E new_model \in Models :
               SetInterestRateModel(caller, new_model)
        \/ \E amount \in Amounts : AddCollateral(caller, amount)
        \/ \E amount \in Amounts : RemoveCollateral(caller, amount)
        \/ PauseContract(caller)
        \/ UnpauseContract(caller)

Spec == Init /\ [][Next]_vars

\* Only messages that add collateral or move debt and total_borrow are sent
\* (and the pause switch), for more calls than under Next: enough for two
\* borrowers to bring total_borrow to the largest Balance.
NextBorrowing ==
    \E caller \in Accounts :
        \/ \E amount \in Amounts : AddCollateral(caller, amount)
        \/ \E amount \in Amounts : Borrow(caller, amount)
        \/ \E amount \in Amounts : Repay(caller, amount)
        \/ \E borrower \in Accounts, amount \in Amounts :
               Liquidate(caller, borrower, amount)
        \/ AccrueInterest(caller)
        \/ PauseContract(caller)
        \/ UnpauseContract(caller)

SpecBorrowing == InitBorrowing /\ [][NextBorrowing]_vars

\* The read-only messages, between the messages that move collateral and
\* debt (and the pause switch).
NextQueries ==
    \E caller \in Accounts :
        \/ \E amount \in Amounts : AddCollateral(caller, amount)
        \/ \E amount \in Amounts : RemoveCollateral(caller, amount)
        \/ \E amount \in Amounts : Borrow(caller, amount)
        \/ \E amount \in Amounts : Deposit(caller, amount)
        \/ PauseContract(caller)
        \/ UnpauseContract(caller)
        \/ \E user \in Accounts : GetAccountLiquidity(caller, user)
        \/ GetTotalSupply(caller)
        \/ GetTotalBorrow(caller)

SpecQueries == InitQueries /\ [][NextQueries]_vars

\* The four messages that add to a stored Balance.
NextArithmetic ==
    \E caller \in Accounts :
        \/ \E amount \in Amounts : Deposit(caller, amount)
        \/ \E amount \in Amounts : AddCollateral(caller, amount)
        \/ \E amount \in Amounts : Borrow(caller, amount)
        \/ AccrueInterest(caller)

SpecArithmetic == InitArithmetic /\ [][NextArithmetic]_vars

\* ---------------------------------------------------------------- claims

\* The messages behind the pause gate (every one that calls not_paused).
UserMessages == {"deposit", "withdraw", "borrow", "repay", "liquidate",
                 "accrue_interest", "add_collateral", "remove_collateral"}

\* The messages behind the authorization gate (every one that calls
\* only_admin).
AdminMessages == {"initialize", "set_interest_rate_model", "pause_contract",
                  "unpause_contract"}

\* C1: in every reachable state total_borrow equals the sum of debts[a]
\* over all accounts a.
C1_TotalBorrowIsSumOfDebts == total_borrow = SumOf(debts)

\* C2: in every reachable state total_supply equals the sum of balances[a]
\* over all accounts a.
C2_TotalSupplyIsSumOfBalances == total_supply = SumOf(balances)

\* Both accounts hold a balance and the last call withdrew a positive amount.
C2_Witness ==
    /\ message = "withdraw"
    /\ result = "Ok"
    /\ events[1].amount > 0
    /\ \A a \in Accounts : Get(balances, a) > 0

\* C3: a call that returns an error of the Error enum leaves every field of
\* the ledger (admin, interest_rate_model, underlying_asset, paused,
\* total_supply, total_borrow, balances, debts, collaterals) as it was.
C3_ErrorLeavesLedgerUnchanged ==
    [][result' \in ErrorKinds => UNCHANGED ledger]_vars

\* liquidate passed the debt check and failed the collateral check.
C3_Witness ==
    /\ message = "liquidate"
    /\ result = "InsufficientCollateral"
    /\ \E b \in Accounts : Get(debts, b) > Get(collaterals, b)

\* C4: while paused, every user message fails with ContractPaused and changes
\* nothing in the ledger, and initialize, set_interest_rate_model,
\* pause_contract and unpause_contract called by the admin return Ok.
C4_PauseGate ==
    [][paused =>
         /\ message' \in UserMessages =>
                result' = "ContractPaused" /\ UNCHANGED ledger
         /\ message' \in AdminMessages =>
            \A m \in Models, a \in Assets :
                (\/ Initialize(admin, m, a)
                 \/ SetInterestRateModel(admin, m)
                 \/ PauseContract(admin)
                 \/ UnpauseContract(admin)) => result' = "Ok"]_vars

\* A withdrawal from a funded ledger was turned away by the pause gate.
C4_Witness ==
    /\ paused
    /\ message = "withdraw"
    /\ result = "ContractPaused"
    /\ total_supply > 0

\* C5: for a caller other than admin, initialize, set_interest_rate_model,
\* pause_contract and unpause_contract return NotAuthorized and change
\* nothing in the ledger, paused or not.
C5_NonAdminRejected ==
    [][message' \in AdminMessages =>
       \A c \in Accounts \ {admin} : \A m \in Models, a \in Assets :
           (\/ Initialize(c, m, a)
            \/ SetInterestRateModel(c, m)
            \/ PauseContract(c)
            \/ UnpauseContract(c))
           => result' = "NotAuthorized" /\ UNCHANGED ledger]_vars

\* A non-admin tried to unpause the paused contract.
C5_Witness ==
    /\ paused
    /\ message = "unpause_contract"
    /\ result = "NotAuthorized"

\* C6 as stated: when not paused, borrow(amount) returns Ok iff
\* debts[caller] + amount <= collaterals[caller] / 2, then adding amount to
\* debts[caller] and total_borrow, and returns InsufficientCollateral
\* otherwise.
C6_BorrowAsStated ==
    [][\A c \in Accounts, a \in Amounts :
           (~paused /\ message' = "borrow" /\ Borrow(c, a)) =>
               IF Get(debts, c) + a <= Get(collaterals, c) \div 2
               THEN /\ result' = "Ok"
                    /\ Get(debts', c) = Get(debts, c) + a
                    /\ total_borrow' = total_borrow + a
               ELSE result' = "InsufficientCollateral"]_vars

\* C6 amended: as stated whenever debts[caller] + amount and (once the
\* collateral check has passed) total_borrow + amount fit in a Balance; when
\* one of them does not fit, the call traps and changes nothing.  A failed
\* borrow changes nothing.
C6_BorrowBound ==
    [][\A c \in Accounts, a \in Amounts :
           (~paused /\ message' = "borrow" /\ Borrow(c, a)) =>
               IF Get(debts, c) + a > MaxBalance
               THEN result' = "Trap" /\ UNCHANGED ledger
               ELSE IF Get(debts, c) + a > Get(collaterals, c) \div 2
               THEN result' = "InsufficientCollateral" /\ UNCHANGED ledger
               ELSE IF total_borrow + a > MaxBalance
               THEN result' = "Trap" /\ UNCHANGED ledger
               ELSE /\ result' = "Ok"
                    /\ Get(debts', c) = Get(debts, c) + a
                    /\ total_borrow' = total_borrow + a]_vars

\* The last borrow brought the borrower's debt to exactly collateral / 2.
C6_Witness ==
    /\ message = "borrow"
    /\ result = "Ok"
    /\ events[1].amount > 0
    /\ Get(debts, events[1].borrower)
           = Get(collaterals, events[1].borrower) \div 2

\* C7: when not paused, liquidate(borrower, amount) by any caller returns Ok
\* iff debts[borrower] >= amount and collaterals[borrower] >= amount, then
\* taking amount off both; it returns InsufficientBalance when the debt is
\* too small (whatever the collateral) and InsufficientCollateral only when
\* the debt suffices and the collateral does not; and after a liquidation of
\* a positive amount that left no debt, the same liquidation again returns
\* InsufficientBalance.
C7_Liquidate ==
    [][/\ \A c \in Accounts, b \in Accounts, a \in Amounts :
              (~paused /\ message' = "liquidate" /\ Liquidate(c, b, a)) =>
                  IF Get(debts, b) < a
                  THEN result' = "InsufficientBalance"
                  ELSE IF Get(collaterals, b) < a
                  THEN result' = "InsufficientCollateral"
                  ELSE /\ result' = "Ok"
                       /\ Get(debts', b) = Get(debts, b) - a
                       /\ Get(collaterals', b) = Get(collaterals, b) - a
       /\ (/\ message = "liquidate"
           /\ result = "Ok"
           /\ events[1].amount > 0
           /\ Get(debts, events[1].borrower) = 0
           /\ message' = "liquidate") =>
              \A c \in Accounts :
                  Liquidate(c, events[1].borrower, events[1].amount) =>
                      result' = "InsufficientBalance"]_vars

\* Someone other than the borrower liquidated the borrower's whole debt.
C7_Witness ==
    /\ message = "liquidate"
    /\ result = "Ok"
    /\ events[1].amount > 0
    /\ events[1].liquidator # events[1].borrower
    /\ Get(debts, events[1].borrower) = 0

\* C8 as stated: when not paused, accrue_interest returns Ok for any caller,
\* sets total_borrow to total_borrow + total_borrow div 100 and changes
\* nothing else.
C8_AccrueAsStated ==
    [][\A c \in Accounts :
           (~paused /\ message' = "accrue_interest" /\ AccrueInterest(c)) =>
               /\ result' = "Ok"
               /\ total_borrow' = total_borrow + (total_borrow \div 100)
               /\ UNCHANGED <<interest_rate_model, underlying_asset,
                              total_supply, paused, balances, debts,
                              collaterals, admin>>]_vars

\* C8 amended: as stated whenever total_borrow + total_borrow div 100 fits
\* in a Balance; when it does not, the call traps and changes nothing.
C8_AccrueInterest ==
    [][\A c \in Accounts :
           (~paused /\ message' = "accrue_interest" /\ AccrueInterest(c)) =>
               /\ UNCHANGED <<interest_rate_model, underlying_asset,
                              total_supply, paused, balances, debts,
                              collaterals, admin>>
               /\ IF total_borrow + (total_borrow \div 100) > MaxBalance
                  THEN result' = "Trap" /\ total_borrow' = total_borrow
                  ELSE /\ result' = "Ok"
                       /\ total_borrow' =
                              total_borrow + (total_borrow \div 100)]_vars

\* Interest was accrued and it was not zero.
C8_Witness ==
    /\ message = "accrue_interest"
    /\ result = "Ok"
    /\ events[1].amount > 0

\* C9: when not paused, withdraw(amount) returns Ok iff
\* balances[caller] >= amount, then taking amount off balances[caller] and
\* total_supply, and returns InsufficientBalance otherwise; no account's
\* withdrawals ever exceed its deposits.
C9_Withdraw ==
    [][/\ \A c \in Accounts, a \in Amounts :
              (~paused /\ message' = "withdraw" /\ Withdraw(c, a)) =>
                  IF Get(balances, c) >= a
                  THEN /\ result' = "Ok"
                       /\ Get(balances', c) = Get(balances, c) - a
                       /\ total_supply' = total_supply - a
                  ELSE result' = "InsufficientBalance"
       /\ \A x \in Accounts : net_deposited'[x] >= 0]_vars

\* An account withdrew its whole positive balance.
C9_Witness ==
    /\ message = "withdraw"
    /\ result = "Ok"
    /\ events[1].amount > 0
    /\ Get(balances, events[1].to) = 0

\* C10: when not paused, repay(amount) returns Ok iff debts[caller] >= amount,
\* then taking amount off debts[caller] and total_borrow, and returns
\* InsufficientBalance otherwise.
C10_Repay ==
    [][\A c \in Accounts, a \in Amounts :
           (~paused /\ message' = "repay" /\ Repay(c, a)) =>
               IF Get(debts, c) >= a
               THEN /\ result' = "Ok"
                    /\ Get(debts', c) = Get(debts, c) - a
                    /\ total_borrow' = total_borrow - a
               ELSE result' = "InsufficientBalance"]_vars

\* An account repaid its whole positive debt.
C10_Witness ==
    /\ message = "repay"
    /\ result = "Ok"
    /\ events[1].amount > 0
    /\ Get(debts, events[1].borrower) = 0

\* C11: when not paused, remove_collateral(amount) returns Ok iff
\* collaterals[caller] >= amount, whatever debts[caller] is, then taking
\* amount off collaterals[caller] and changing nothing else in the ledger,
\* and returns InsufficientCollateral otherwise.
C11_RemoveCollateral ==
    [][\A c \in Accounts, a \in Amounts :
           (~paused /\ message' = "remove_collateral"
                    /\ RemoveCollateral(c, a)) =>
               IF Get(collaterals, c) >= a
               THEN /\ result' = "Ok"
                    /\ Get(collaterals', c) = Get(collaterals, c) - a
                    /\ \A x \in Accounts \ {c} :
                           Get(collaterals', x) = Get(collaterals, x)
                    /\ UNCHANGED <<interest_rate_model, underlying_asset,
                                   total_supply, total_borrow, paused,
                                   balances, debts, admin>>
               ELSE result' = "InsufficientCollateral"]_vars

\* Collateral was removed from under a debt that what remains does not
\* cover.
C11_Witness ==
    /\ message = "remove_collateral"
    /\ result = "Ok"
    /\ events[1].amount > 0
    /\ Get(debts, events[1].user) > Get(collaterals, events[1].user)

\* C12: in every state, paused or not, get_account_liquidity(account)
\* returns Ok with collaterals[account] - debts[account] when the collateral
\* is at least the debt and 0 otherwise, and changes nothing in the ledger.
C12_AccountLiquidity ==
    [][\A c \in Accounts, u \in Accounts :
           (message' = "get_account_liquidity"
                /\ GetAccountLiquidity(c, u)) =>
               /\ result' = "Ok"
               /\ UNCHANGED ledger
               /\ returned' =
                      IF Get(collaterals, u) >= Get(debts, u)
                      THEN Get(collaterals, u) - Get(debts, u)
                      ELSE 0]_vars

\* The liquidity of an account that owes more than its collateral was asked
\* for while the contract was paused.
C12_Witness ==
    /\ message = "get_account_liquidity"
    /\ paused
    /\ returned = 0
    /\ \E u \in Accounts : Get(debts, u) > Get(collaterals, u)

\* The messages that write the ledger.
MutatingMessages == UserMessages \cup AdminMessages

\* C13: every call of a mutating message that succeeds (deposit, withdraw,
\* borrow, repay, liquidate, accrue_interest, add_collateral,
\* remove_collateral, set_interest_rate_model, initialize, pause_contract,
\* unpause_contract) emits exactly one event, and a call that fails emits
\* none.
C13_OneNotification ==
    [][message' \in MutatingMessages =>
           IF result' = "Ok" THEN Len(events') = 1
                             ELSE Len(events') = 0]_vars

\* Every Balance the ledger stores fits the width.
StoredInRange ==
    /\ total_supply \in 0..MaxBalance
    /\ total_borrow \in 0..MaxBalance
    /\ \A a \in Accounts :
           /\ Get(balances, a) \in 0..MaxBalance
           /\ Get(debts, a) \in 0..MaxBalance
           /\ Get(collaterals, a) \in 0..MaxBalance

\* C14: no call stores a value outside the width, and a deposit,
\* add_collateral, borrow or accrue_interest one of whose sums
\* (balances[caller] + amount, total_supply + amount,
\* collaterals[caller] + amount, debts[caller] + amount,
\* total_borrow + amount, total_borrow + interest) exceeds the largest
\* Balance does not succeed and leaves the ledger unchanged.
C14_NoWraparound ==
    [][/\ StoredInRange'
       /\ \A c \in Accounts, a \in Amounts :
              /\ (/\ message' = "deposit"
                  /\ \/ Get(balances, c) + a > MaxBalance
                     \/ total_supply + a > MaxBalance
                  /\ Deposit(c, a))
                     => (result' # "Ok" /\ UNCHANGED ledger)
              /\ (/\ message' = "add_collateral"
                  /\ Get(collaterals, c) + a > MaxBalance
                  /\ AddCollateral(c, a))
                     => (result' # "Ok" /\ UNCHANGED ledger)
              /\ (/\ message' = "borrow"
                  /\ \/ Get(debts, c) + a > MaxBalance
                     \/ total_borrow + a > MaxBalance
                  /\ Borrow(c, a))
                     => (result' # "Ok" /\ UNCHANGED ledger)
              /\ (/\ message' = "accrue_interest"
                  /\ total_borrow + (total_borrow \div 100) > MaxBalance
                  /\ AccrueInterest(c))
                     => (result' # "Ok" /\ UNCHANGED ledger)]_vars

\* An addition did not fit and the call was reverted, next to a stored
\* value that sits at the largest Balance.
C14_Witness ==
    /\ result = "Trap"
    /\ message \in {"deposit", "borrow", "accrue_interest"}
    /\ \/ total_supply = MaxBalance
       \/ total_borrow + (total_borrow \div 100) > MaxBalance

\* C15: for every account a, the only call that leads from
\* debts[a] <= collaterals[a] / 2 to debts[a] > collaterals[a] / 2 is
\* accrue_interest; remove_collateral, liquidate, borrow and repay never do.
C15_OnlyAccrualExceedsBound ==
    [][\A a \in Accounts :
           (/\ Get(debts, a) <= calculate_max_borrow(Get(collaterals, a))
            /\ Get(debts', a) > calculate_max_borrow(Get(collaterals', a)))
               => message' = "accrue_interest"]_vars

\* C16: while the contract is paused, a user call whose own precondition
\* fails as well (withdraw above the balance, repay above the debt, borrow
\* above the bound, remove_collateral above the collateral, liquidate above
\* the borrower's debt or collateral) returns ContractPaused, never
\* InsufficientBalance or InsufficientCollateral.
C16_PauseCheckedFirst ==
    [][paused =>
         \A c \in Accounts, b \in Accounts, a \in Amounts :
            /\ (/\ message' = "withdraw"
                /\ Get(balances, c) < a
                /\ Withdraw(c, a)) => result' = "ContractPaused"
            /\ (/\ message' = "repay"
                /\ Get(debts, c) < a
                /\ Repay(c, a)) => result' = "ContractPaused"
            /\ (/\ message' = "borrow"
                /\ calculate_max_borrow(Get(collaterals, c))
                       < Get(debts, c) + a
                /\ Borrow(c, a)) => result' = "ContractPaused"
            /\ (/\ message' = "remove_collateral"
                /\ Get(collaterals, c) < a
                /\ RemoveCollateral(c, a)) => result' = "ContractPaused"
            /\ (/\ message' = "liquidate"
                /\ \/ Get(debts, b) < a
                   \/ Get(collaterals, b) < a
                /\ Liquidate(c, b, a)) => result' = "ContractPaused"]_vars

\* A borrow met the pause gate on a ledger where nobody has collateral, so
\* that its own check could only have refused it too.
C16_Witness ==
    /\ paused
    /\ message = "borrow"
    /\ result = "ContractPaused"
    /\ \A a \in Accounts : Get(collaterals, a) = 0

\* C17: paused changes only in a successful pause_contract or
\* unpause_contract of the admin; every successful pause_contract ends with
\* paused = TRUE, also when it was TRUE before, and every successful
\* unpause_contract ends with paused = FALSE.
C17_PauseSwitch ==
    [][/\ paused' # paused =>
              /\ result' = "Ok"
              /\ message' \in {"pause_contract", "unpause_contract"}
              /\ PauseContract(admin) \/ UnpauseContract(admin)
       /\ (message' = "pause_contract" /\ result' = "Ok") => paused'
       /\ (message' = "unpause_contract" /\ result' = "Ok") => ~paused'
       /\ (message' = "pause_contract" /\ PauseContract(admin))
              => result' = "Ok"]_vars

\* pause_contract succeeded as the third call or later.
C17_Witness ==
    /\ paused
    /\ message = "pause_contract"
    /\ result = "Ok"
    /\ calls_left <= MaxCalls - 3

\* C18: in every reachable state admin is the caller of the constructor,
\* after calls of every message by every caller, successful or failed; and
\* the constructed state has total_supply = 0, total_borrow = 0,
\* paused = FALSE and empty mappings.
C18_AdminIsDeployer ==
    /\ admin = Deployer
    /\ message = "new" =>
           /\ total_supply = 0
           /\ total_borrow = 0
           /\ paused = FALSE
           /\ balances = EmptyMapping
           /\ debts = EmptyMapping
           /\ collaterals = EmptyMapping

\* The admin has reinitialized the contract with another asset.
C18_Witness ==
    /\ message = "initialize"
    /\ result = "Ok"
    /\ underlying_asset # "asset1"

\* C19: total_borrow is at least the sum of debts and total_supply at
\* least every balance, so that no repay or withdraw traps on its
\* subtraction from the total; and no call makes the gap between
\* total_borrow and the sum of debts smaller.
C19_TotalsDominate ==
    [][/\ total_borrow' >= SumOf(debts')
       /\ \A a \in Accounts : total_supply' >= Get(balances', a)
       /\ message' \in {"repay", "withdraw"} => result' # "Trap"
       /\ total_borrow' - SumOf(debts')
              >= total_borrow - SumOf(debts)]_vars

\* A repay went through while total_borrow was above the sum of debts.
C19_Witness ==
    /\ message = "repay"
    /\ result = "Ok"
    /\ events[1].amount > 0
    /\ total_borrow > SumOf(debts)

\* The entries of every account but a are as before the step.
OthersUnchanged(a) ==
    \A x \in Accounts \ {a} :
        /\ Get(balances', x) = Get(balances, x)
        /\ Get(debts', x) = Get(debts, x)
        /\ Get(collaterals', x) = Get(collaterals, x)

\* C20: deposit, withdraw, borrow, repay, add_collateral and
\* remove_collateral by a caller leave the balances, debts and collaterals
\* of every other account unchanged; liquidate(borrower, amount) changes
\* only debts[borrower] and collaterals[borrower]; deposit and withdraw
\* never change debts, collaterals or total_borrow; borrow, repay,
\* add_collateral and remove_collateral never change balances or
\* total_supply.  The caller and the arguments of a successful call are
\* read off the event it emitted; a call that fails changes no entry at all.
C20_Frame ==
    [][/\ (message' \in UserMessages /\ result' # "Ok")
              => UNCHANGED <<balances, debts, collaterals>>
       /\ (message' = "deposit" /\ result' = "Ok") =>
              /\ Deposit(events'[1].from, events'[1].amount)
              /\ OthersUnchanged(events'[1].from)
       /\ (message' = "withdraw" /\ result' = "Ok") =>
              /\ Withdraw(events'[1].to, events'[1].amount)
              /\ OthersUnchanged(events'[1].to)
       /\ (message' = "borrow" /\ result' = "Ok") =>
              /\ Borrow(events'[1].borrower, events'[1].amount)
              /\ OthersUnchanged(events'[1].borrower)
       /\ (message' = "repay" /\ result' = "Ok") =>
              /\ Repay(events'[1].borrower, events'[1].amount)
              /\ OthersUnchanged(events'[1].borrower)
       /\ (message' = "add_collateral" /\ result' = "Ok") =>
              /\ AddCollateral(events'[1].user, events'[1].amount)
              /\ OthersUnchanged(events'[1].user)
       /\ (message' = "remove_collateral" /\ result' = "Ok") =>
              /\ RemoveCollateral(events'[1].user, events'[1].amount)
              /\ OthersUnchanged(events'[1].user)
       /\ (message' = "liquidate" /\ result' = "Ok") =>
              /\ Liquidate(events'[1].liquidator, events'[1].borrower,
                           events'[1].amount)
              /\ OthersUnchanged(events'[1].borrower)
              /\ UNCHANGED <<balances, total_supply, total_borrow>>
       /\ message' \in {"deposit", "withdraw"}
              => UNCHANGED <<debts, collaterals, total_borrow>>
       /\ message' \in {"borrow", "repay", "add_collateral",
                        "remove_collateral"}
              => UNCHANGED <<balances, total_supply>>]_vars

\* A liquidator holding collateral of its own has liquidated part of
\* another account's debt.
C20_Witness ==
    /\ message = "liquidate"
    /\ result = "Ok"
    /\ events[1].amount > 0
    /\ events[1].liquidator # events[1].borrower
    /\ Get(collaterals, events[1].liquidator) > 0

====
